---- MODULE Spec2Model ----
(***************************************************************************)
(* Model of MemStorage (server/storage.ts): the in-memory store of         *)
(* clients, invoices and line items, invoice numbering, invoice totals and *)
(* invoice statistics.                                                     *)
(*                                                                         *)
(* Representation.                                                         *)
(*  - A JavaScript Map is a sequence of records in insertion order; set()  *)
(*    on an existing key replaces the record in place.                     *)
(*  - A string that the code inspects (an invoice number) is a sequence of *)
(*    one-character strings.                                               *)
(*  - A number of the request is an exact rational: a rate is a count of   *)
(*    thousandths, a quantity and a tax rate are integers.  A decimal      *)
(*    string written by toFixed(2) is the count of hundredths it denotes.  *)
(*  - randomUUID() is a fresh identifier: a counter value for an invoice,   *)
(*    the pair <<0, counter value>> for a line item created directly, and  *)
(*    the pair <<invoice id, position>> for a line item of createInvoice.  *)
(*  - An async method runs from one await to the next as one step; the     *)
(*    calls in flight are the slots of `calls`.  A call that has returned  *)
(*    keeps its result (ret) in its slot until the caller takes it.        *)
(***************************************************************************)
EXTENDS Integers, Sequences, FiniteSets

VARIABLES
    clients,         \* MemStorage.clients: Map<string, Client>
    invoices,        \* MemStorage.invoices: Map<string, Invoice>
    lineItems,       \* MemStorage.lineItems: Map<string, LineItem>
    invoiceCounter,  \* MemStorage.invoiceCounter
    calls,           \* the async calls in flight, one record per slot
    nextInvoiceId,   \* next fresh randomUUID() of createInvoice
    nextLineItemId,  \* next fresh randomUUID() of a direct createLineItem
    nextClientId,    \* next fresh randomUUID() of createClient
    now,             \* what new Date() reads, in milliseconds
    assigned,        \* the invoice numbers createInvoice has stored so far
    nOps,            \* calls of the storage methods started so far
    overlaps         \* calls that may still start while another is in flight

vars == <<clients, invoices, lineItems, invoiceCounter, calls, nextInvoiceId,
          nextLineItemId, nextClientId, now, assigned, nOps, overlaps>>

\* What the methods of invoices and line items never touch.
clientsAndClock == <<clients, nextClientId, now>>

(***************************************************************************)
(* Bounds of the model.                                                    *)
(***************************************************************************)
MaxOps == 3
MaxCalls == 2
MaxItems == 2
MaxOverlaps == 1
MaxStored == 4
MaxNow == 1

Calls == 1..MaxCalls

\* The ids no record ever had.
UnknownIds == {0}

(***************************************************************************)
(* Strings.                                                                *)
(***************************************************************************)
Digits == <<"0", "1", "2", "3", "4", "5", "6", "7", "8", "9">>

IsDigit(ch) == \E i \in 1..10 : Digits[i] = ch

DigitVal(ch) == (CHOOSE i \in 1..10 : Digits[i] = ch) - 1

Prefix == <<"I", "N", "V", "-">>

\* String.prototype.startsWith
startsWith(s, p) == Len(s) >= Len(p) /\ SubSeq(s, 1, Len(p)) = p

\* s.replace(p, '') for a string s that starts with p: the first occurrence
\* of p is the one at the front.
replacePrefix(s, p) == SubSeq(s, Len(p) + 1, Len(s))

\* The value of a run of decimal digits, most significant first.
RECURSIVE DigitsValue(_)
DigitsValue(s) ==
    IF s = <<>> THEN 0
    ELSE 10 * DigitsValue(SubSeq(s, 1, Len(s) - 1)) + DigitVal(s[Len(s)])

\* The longest prefix of s made of decimal digits.
RECURSIVE LeadingDigits(_)
LeadingDigits(s) ==
    IF s # <<>> /\ IsDigit(s[1]) THEN <<s[1]>> \o LeadingDigits(Tail(s))
    ELSE <<>>

\* parseInt(s) without a radix, over the alphabet of the model (no white
\* space, no 0x prefix): an optional sign, then the longest run of digits;
\* what follows the run is ignored.  <<>> is NaN, <<n>> is the number n.
parseInt(s) ==
    LET neg  == s # <<>> /\ s[1] = "-"
        sgn  == s # <<>> /\ s[1] \in {"-", "+"}
        body == IF sgn THEN Tail(s) ELSE s
        run  == LeadingDigits(body)
    IN  IF run = <<>> THEN <<>>
        ELSE <<(IF neg THEN -1 ELSE 1) * DigitsValue(run)>>

\* String(n) for an integer n.
RECURSIVE NatToString(_)
NatToString(n) ==
    IF n < 10 THEN <<Digits[n + 1]>>
    ELSE NatToString(n \div 10) \o <<Digits[(n % 10) + 1]>>

numberToString(n) ==
    IF n < 0 THEN <<"-">> \o NatToString(-n) ELSE NatToString(n)

\* s.padStart(w, ch)
RECURSIVE padStart(_, _, _)
padStart(s, w, ch) == IF Len(s) >= w THEN s ELSE padStart(<<ch>> \o s, w, ch)

(***************************************************************************)
(* Numbers.                                                                *)
(***************************************************************************)
\* (n / d).toFixed(2) for n >= 0, d > 0, as a count of hundredths: the
\* nearest hundredth, the larger one on a tie.
toFixed2(n, d) == (200 * n + d) \div (2 * d)

\* The sum of a sequence of integers (Array.prototype.reduce with +, from 0).
RECURSIVE Sum(_)
Sum(s) == IF s = <<>> THEN 0 ELSE s[1] + Sum(Tail(s))

Max(S) == CHOOSE x \in S : \A y \in S : y <= x

\* x || d for an optional x: <<>> is undefined (or the empty string).
OrElse(x, d) == IF x = <<>> THEN d ELSE x[1]

(***************************************************************************)
(* Maps.                                                                   *)
(***************************************************************************)
Ids(m) == {m[i].id : i \in 1..Len(m)}

MapHas(m, id) == id \in Ids(m)

MapGet(m, id) == m[CHOOSE i \in 1..Len(m) : m[i].id = id]

\* A map whose new keys go first.
MapSetFirst(m, r) ==
    IF MapHas(m, r.id)
    THEN [i \in 1..Len(m) |-> IF m[i].id = r.id THEN r ELSE m[i]]
    ELSE <<r>> \o m

\* Map.prototype.set: a new key goes last, an existing key keeps its place.
MapSet(m, r) ==
    IF MapHas(m, r.id)
    THEN [i \in 1..Len(m) |-> IF m[i].id = r.id THEN r ELSE m[i]]
    ELSE Append(m, r)

\* Map.prototype.delete
MapDelete(m, id) == SelectSeq(m, LAMBDA r : r.id # id)

\* { ...existing, ...data }
Merge(existing, data) ==
    [f \in DOMAIN existing |-> IF f \in DOMAIN data THEN data[f] ELSE existing[f]]

\* Array.prototype.map
MapSeq(s, F(_)) == [i \in 1..Len(s) |-> F(s[i])]

\* Array.prototype.find: <<>> is undefined, <<r>> is the first match.
Find(s, P(_)) ==
    LET found == SelectSeq(s, P)
    IN  IF found = <<>> THEN <<>> ELSE <<found[1]>>

\* s.sort((a, b) => time(b) - time(a)): later times first; the sort is
\* stable, records of the same time keep the order they have in s.
sortNewestFirst(s, time(_)) ==
    LET before(j, i) == \/ time(s[j]) > time(s[i])
                        \/ time(s[j]) = time(s[i]) /\ j < i
        rank(i) == 1 + Cardinality({j \in 1..Len(s) : before(j, i)})
    IN  [k \in 1..Len(s) |-> s[CHOOSE i \in 1..Len(s) : rank(i) = k]]

(***************************************************************************)
(* Inputs.                                                                 *)
(***************************************************************************)
\* Line items of a createInvoice request: quantity, and rate in thousandths.
ItemInputs ==
    { [quantity |-> 1, rate |-> 4], [quantity |-> 2, rate |-> 1250],
      [quantity |-> 3, rate |-> 335] }

ItemLists == UNION {[1..n -> ItemInputs] : n \in 0..MaxItems}

\* Tax rates of a request, in percent.
TaxRates == {0, 8, 50}

\* The requests of the calculation: every list of up to MaxItems line items
\* with every tax rate.
AllRequests ==
    [lineItems : ItemLists, taxRate : TaxRates,
     clientName : {"a"}, clientEmail : {"a@x"}, clientAddress : {<<>>}]

\* The requests made of a store that holds other invoices.
Requests ==
    { [lineItems |-> <<[quantity |-> 1, rate |-> 4]>>, taxRate |-> 50,
       clientName |-> "a", clientEmail |-> "a@x", clientAddress |-> <<>>],
      [lineItems |-> <<[quantity |-> 2, rate |-> 1250],
                       [quantity |-> 1, rate |-> 4]>>, taxRate |-> 0,
       clientName |-> "a", clientEmail |-> "a@x", clientAddress |-> <<"street">>] }

(***************************************************************************)
(* The pure part of the storage methods.                                   *)
(***************************************************************************)
\* A numbering that counts the invoices instead of scanning their numbers.
getNextInvoiceNumberByCount(m) ==
    Prefix \o padStart(numberToString(Len(m) + 1), 3, "0")

\* A numbering that takes the first number found instead of the largest.
getNextInvoiceNumberFromFirst(m) ==
    LET nums     == MapSeq(m, LAMBDA inv : inv.invoiceNumber)
        prefixed == SelectSeq(nums, LAMBDA num : startsWith(num, Prefix))
        parsed   == MapSeq(prefixed, LAMBDA num : parseInt(replacePrefix(num, Prefix)))
        existingNumbers == SelectSeq(parsed, LAMBDA num : num # <<>>)
        maxNumber == IF Len(existingNumbers) > 0 THEN existingNumbers[1][1] ELSE 0
    IN  Prefix \o padStart(numberToString(maxNumber + 1), 3, "0")

\* A numbering that returns the largest number found, not the one after it.
getNextInvoiceNumberAtMax(m) ==
    LET nums     == MapSeq(m, LAMBDA inv : inv.invoiceNumber)
        prefixed == SelectSeq(nums, LAMBDA num : startsWith(num, Prefix))
        parsed   == MapSeq(prefixed, LAMBDA num : parseInt(replacePrefix(num, Prefix)))
        existingNumbers == SelectSeq(parsed, LAMBDA num : num # <<>>)
        maxNumber == IF Len(existingNumbers) > 0
                     THEN Max({existingNumbers[i][1] : i \in 1..Len(existingNumbers)})
                     ELSE 1
    IN  Prefix \o padStart(numberToString(maxNumber), 3, "0")

\* getNextInvoiceNumber on the invoices map m.
getNextInvoiceNumber(m) ==
    LET nums     == MapSeq(m, LAMBDA inv : inv.invoiceNumber)
        prefixed == SelectSeq(nums, LAMBDA num : startsWith(num, Prefix))
        parsed   == MapSeq(prefixed, LAMBDA num : parseInt(replacePrefix(num, Prefix)))
        existingNumbers == SelectSeq(parsed, LAMBDA num : num # <<>>)
        maxNumber == IF Len(existingNumbers) > 0
                     THEN Max({existingNumbers[i][1] : i \in 1..Len(existingNumbers)})
                     ELSE 0
    IN  Prefix \o padStart(numberToString(maxNumber + 1), 3, "0")

\* getLineItemsByInvoiceId on the line items map m.
getLineItemsByInvoiceId(m, invoiceId) ==
    SelectSeq(m, LAMBDA item : item.invoiceId = invoiceId)

\* Statistics that count the revenue of every invoice, paid or not.
getInvoiceStatsOfAll(m) ==
    [totalInvoices   |-> Len(m),
     totalRevenue    |-> toFixed2(Sum(MapSeq(m, LAMBDA inv : inv.total)), 100),
     pendingInvoices |-> Len(SelectSeq(m, LAMBDA inv : inv.status = "sent")),
     overdueInvoices |-> Len(SelectSeq(m, LAMBDA inv : inv.status = "overdue"))]

\* getInvoiceStats on the invoices map m.  parseFloat of a stored total is
\* the amount its decimal string denotes; the sum is in hundredths.
getInvoiceStats(m) ==
    LET paid    == SelectSeq(m, LAMBDA inv : inv.status = "paid")
        revenue == Sum(MapSeq(paid, LAMBDA inv : inv.total))
    IN  [totalInvoices   |-> Len(m),
         totalRevenue    |-> toFixed2(revenue, 100),
         pendingInvoices |-> Len(SelectSeq(m, LAMBDA inv : inv.status = "sent")),
         overdueInvoices |-> Len(SelectSeq(m, LAMBDA inv : inv.status = "overdue"))]

\* The Client record createClient builds; "null" is null.
newClient(id, insertClient) ==
    [id        |-> id,
     name      |-> insertClient.name,
     email     |-> insertClient.email,
     address   |-> OrElse(insertClient.address, "null"),
     createdAt |-> now]

\* A result that leaves the line items out.
withoutLineItems(invoice, items) == [invoice |-> invoice, lineItems |-> <<>>]

\* { ...invoice, lineItems }
withLineItems(invoice, items) == [invoice |-> invoice, lineItems |-> items]

\* Line items whose amounts are rounded to hundredths one by one.
lineItemsWithRoundedAmounts(req) ==
    MapSeq(req.lineItems,
           LAMBDA item : [quantity |-> item.quantity, rate |-> item.rate,
                          amount |-> 10 * toFixed2(item.quantity * item.rate, 1000)])

\* lineItemsWithAmounts of createInvoice: amount is quantity * rate, in
\* thousandths, not rounded.
lineItemsWithAmounts(req) ==
    MapSeq(req.lineItems,
           LAMBDA item : [quantity |-> item.quantity, rate |-> item.rate,
                          amount |-> item.quantity * item.rate])

\* subtotal of createInvoice, in thousandths.
subtotalOf(req) ==
    Sum(MapSeq(lineItemsWithAmounts(req), LAMBDA item : item.amount))

\* The Invoice record createInvoice builds.  taxAmount = subtotal *
\* (taxRate / 100) and total = subtotal + taxAmount are exact here:
\* subtotal is s thousandths, taxAmount is s * taxRate hundred-thousandths.
\* The two new Date() of lines 142-143 read the clock in the same step.
newInvoice(id, invoiceNumber, req) ==
    LET s == subtotalOf(req)
    IN  [id            |-> id,
         invoiceNumber |-> invoiceNumber,
         clientId      |-> "null",
         clientName    |-> req.clientName,
         clientEmail   |-> req.clientEmail,
         clientAddress |-> OrElse(req.clientAddress, "null"),
         status        |-> "draft",
         subtotal      |-> toFixed2(s, 1000),
         taxRate       |-> toFixed2(req.taxRate, 1),
         taxAmount     |-> toFixed2(s * req.taxRate, 100000),
         total         |-> toFixed2(s * 100 + s * req.taxRate, 100000),
         createdAt     |-> now,
         updatedAt     |-> now]

\* The InsertLineItem createInvoice passes to createLineItem for an item of
\* lineItemsWithAmounts.
insertLineItemOf(id, item) ==
    [invoiceId |-> id,
     quantity  |-> item.quantity,
     rate      |-> <<toFixed2(item.rate, 1000)>>,
     amount    |-> <<toFixed2(item.amount, 1000)>>]

\* The LineItem record createLineItem builds.
newLineItem(id, ins) ==
    [id        |-> id,
     invoiceId |-> ins.invoiceId,
     quantity  |-> IF ins.quantity = 0 THEN 1 ELSE ins.quantity,
     rate      |-> OrElse(ins.rate, 0),
     amount    |-> OrElse(ins.amount, 0)]

(***************************************************************************)
(* Inputs of the operations.                                               *)
(***************************************************************************)
Idle == [op |-> "none", pc |-> "idle"]

\* A call that has returned hands its result over before anything else runs:
\* no await lies between the return and the resolution of the promise.
Settled == \A c \in Calls : calls[c].pc # "done"

NoneInFlight == \A c \in Calls : calls[c].pc = "idle"

\* A call may start: a caller that serializes its calls (no overlap left)
\* waits for the call before to return.
CanBegin ==
    /\ Settled
    /\ nOps < MaxOps
    /\ NoneInFlight \/ overlaps > 0

\* A call has started, overlapping the calls in flight if there are any.
Begun ==
    /\ nOps' = nOps + 1
    /\ overlaps' = IF NoneInFlight THEN overlaps ELSE overlaps - 1

\* A call takes the first free slot: the slots have no identity of their own.
Free(c) ==
    /\ calls[c].pc = "idle"
    /\ \A d \in Calls : d < c => calls[d].pc # "idle"

\* The ids a caller names: those of the records in the store, those that line
\* items refer to, those of records that were in the store, and an id that
\* never was.
KnownInvoiceIds ==
    Ids(invoices) \cup {lineItems[i].invoiceId : i \in 1..Len(lineItems)}
        \cup 1..(nextInvoiceId - 1) \cup UnknownIds

KnownLineItemIds ==
    Ids(lineItems) \cup {<<0, n>> : n \in 0..(nextLineItemId - 1)}

\* The invoiceNumber values of an updateInvoice.
InvoiceNumbers ==
    { Prefix \o <<"0", "0", "1">>, Prefix \o <<"0", "0", "3">>,
      Prefix \o <<"1", "2", "A">>, Prefix \o <<"A", "B", "C">>,
      Prefix \o <<"9", "9", "9">> }

\* Partial<InsertInvoice> values of updateInvoice, but for an invoiceNumber.
InvoiceUpdates == {[status |-> "paid"], [total |-> 500]}

\* InsertLineItem values of a direct createLineItem, but for the invoiceId.
LineItemInputs ==
    { [quantity |-> 0, rate |-> <<>>, amount |-> <<>>],
      [quantity |-> 2, rate |-> <<125>>, amount |-> <<250>>] }

\* Partial<InsertLineItem> values of updateLineItem, but for an invoiceId.
LineItemUpdates == {[quantity |-> 3], [amount |-> 100], [quantity |-> 0]}

(***************************************************************************)
(* createInvoice (storage.ts 113-162).  It awaits getNextInvoiceNumber and *)
(* then each createLineItem; both run synchronously when called, so the    *)
(* store is read or written right before each await.  A call keeps, beside *)
(* its locals, the invoices map its number was read from (seen).           *)
(***************************************************************************)
\* A start that reserves its number: it takes the number from
\* invoiceCounter when the scan is behind it, and moves invoiceCounter on.
CreateInvoiceStartReserving(c, req) ==
    LET scanned == getNextInvoiceNumber(invoices)
        n       == Max({invoiceCounter,
                        DigitsValue(LeadingDigits(replacePrefix(scanned, Prefix)))})
    IN  /\ Free(c)
        /\ CanBegin
        /\ calls' = [calls EXCEPT ![c] =
                [op |-> "createInvoice", pc |-> "number", id |-> nextInvoiceId,
                 invoiceNumber |-> Prefix \o padStart(numberToString(n), 3, "0"),
                 seen |-> invoices, req |-> req]]
        /\ invoiceCounter' = n + 1
        /\ nextInvoiceId' = nextInvoiceId + 1
        /\ Begun
        /\ UNCHANGED <<invoices, lineItems, nextLineItemId, assigned, clientsAndClock>>

\* Lines 114-115: the id, and the number read from the store; then the await.
CreateInvoiceStart(c, req) ==
    /\ CanBegin
    /\ Free(c)
    /\ calls' = [calls EXCEPT ![c] =
            [op |-> "createInvoice", pc |-> "number", id |-> nextInvoiceId,
             invoiceNumber |-> getNextInvoiceNumber(invoices),
             seen |-> invoices, req |-> req]]
    /\ nextInvoiceId' = nextInvoiceId + 1
    /\ Begun
    /\ UNCHANGED <<invoices, lineItems, invoiceCounter, nextLineItemId, assigned,
                   clientsAndClock>>

\* Lines 118-157: the totals, invoices.set, and the first createLineItem up
\* to its await; with no line item, lines 118-161.
CreateInvoiceInsert(c) ==
    /\ Settled
    /\ calls[c].pc = "number"
    /\ LET call    == calls[c]
           invoice == newInvoice(call.id, call.invoiceNumber, call.req)
           items   == lineItemsWithAmounts(call.req)
       IN  /\ invoices' = MapSet(invoices, invoice)
           /\ assigned' = assigned \cup {call.invoiceNumber}
           /\ IF items = <<>>
              THEN /\ calls' = [calls EXCEPT ![c] =
                        [op |-> "createInvoice", pc |-> "done", id |-> call.id,
                         invoiceNumber |-> call.invoiceNumber,
                         seen |-> call.seen, req |-> call.req,
                         ret |-> [invoice |-> invoice, lineItems |-> <<>>]]]
                   /\ UNCHANGED lineItems
              ELSE LET lineItem == newLineItem(<<call.id, 1>>,
                                       insertLineItemOf(call.id, items[1]))
                   IN  /\ lineItems' = MapSet(lineItems, lineItem)
                       /\ calls' = [calls EXCEPT ![c] =
                            [op |-> "createInvoice", pc |-> "items",
                             id |-> call.id,
                             invoiceNumber |-> call.invoiceNumber,
                             seen |-> call.seen, req |-> call.req,
                             invoice |-> invoice, awaited |-> lineItem,
                             createdLineItems |-> <<>>]]
    /\ UNCHANGED <<invoiceCounter, nextInvoiceId, nextLineItemId, nOps, overlaps,
                   clientsAndClock>>

\* Lines 158, 150-157 or 161: push the line item awaited, then the next
\* createLineItem up to its await, or the return after the last one.
CreateInvoiceNextItem(c) ==
    /\ Settled
    /\ calls[c].pc = "items"
    /\ LET call    == calls[c]
           items   == lineItemsWithAmounts(call.req)
           created == Append(call.createdLineItems, call.awaited)
       IN  IF Len(created) = Len(items)
           THEN /\ calls' = [calls EXCEPT ![c] =
                     [op |-> "createInvoice", pc |-> "done", id |-> call.id,
                      invoiceNumber |-> call.invoiceNumber,
                      seen |-> call.seen, req |-> call.req,
                      ret |-> [invoice |-> call.invoice, lineItems |-> created]]]
                /\ UNCHANGED lineItems
           ELSE LET lineItem == newLineItem(<<call.id, Len(created) + 1>>,
                                    insertLineItemOf(call.id, items[Len(created) + 1]))
                IN  /\ lineItems' = MapSet(lineItems, lineItem)
                    /\ calls' = [calls EXCEPT ![c] =
                         [call EXCEPT !.awaited = lineItem,
                                      !.createdLineItems = created]]
    /\ UNCHANGED <<invoices, invoiceCounter, nextInvoiceId, nextLineItemId,
                   assigned, nOps, overlaps, clientsAndClock>>

(***************************************************************************)
(* deleteInvoice (storage.ts 190-198).                                     *)
(***************************************************************************)
\* Line 192: the line items of the invoice, read from the store; then the
\* await.
DeleteInvoiceStart(c, id) ==
    /\ CanBegin
    /\ Free(c)
    /\ id \in KnownInvoiceIds
    /\ calls' = [calls EXCEPT ![c] =
            [op |-> "deleteInvoice", pc |-> "scan", id |-> id,
             lineItems |-> getLineItemsByInvoiceId(lineItems, id)]]
    /\ Begun
    /\ UNCHANGED <<invoices, lineItems, invoiceCounter, nextInvoiceId,
                   nextLineItemId, assigned, clientsAndClock>>

\* A deletion that stops after the first of the items.
DeleteFirst(m, items) ==
    IF items = <<>> THEN m ELSE MapDelete(m, items[1].id)

\* A deletion that empties the map.
DeleteEverything(m, items) == <<>>

\* The map m without the records whose id is the id of a record of items.
DeleteAll(m, items) == SelectSeq(m, LAMBDA r : r.id \notin Ids(items))

\* Lines 193-197: delete the line items read, then the invoice.
DeleteInvoiceFinish(c) ==
    /\ Settled
    /\ calls[c].pc = "scan"
    /\ lineItems' = DeleteAll(lineItems, calls[c].lineItems)
    /\ invoices' = MapDelete(invoices, calls[c].id)
    /\ calls' = [calls EXCEPT ![c] =
            [op |-> "deleteInvoice", pc |-> "done", id |-> calls[c].id,
             lineItems |-> calls[c].lineItems,
             ret |-> MapHas(invoices, calls[c].id)]]
    /\ UNCHANGED <<invoiceCounter, nextInvoiceId, nextLineItemId, assigned, nOps,
                   overlaps, clientsAndClock>>

\* The caller takes the result of a call that has returned.
Return(c) ==
    /\ calls[c].pc = "done"
    /\ calls' = [calls EXCEPT ![c] = Idle]
    /\ UNCHANGED <<invoices, lineItems, invoiceCounter, nextInvoiceId,
                   nextLineItemId, assigned, nOps, overlaps, clientsAndClock>>

(***************************************************************************)
(* The methods of invoices and line items without an await: each runs as   *)
(* one step, and its result is what the caller takes at Return.  <<>> is   *)
(* undefined, <<r>> is the record r.                                       *)
(***************************************************************************)
\* An updateInvoice that stamps createdAt as well.
UpdateInvoiceRestamping(c, id, invoiceData) ==
    /\ CanBegin
    /\ Free(c)
    /\ id \in KnownInvoiceIds
    /\ IF MapHas(invoices, id)
       THEN LET existing == MapGet(invoices, id)
                updated  == [Merge(existing, invoiceData) EXCEPT !.updatedAt = now,
                                                                 !.createdAt = now]
            IN  /\ invoices' = MapSet(invoices, updated)
                /\ calls' = [calls EXCEPT ![c] =
                        [op |-> "updateInvoice", pc |-> "done", id |-> id,
                         ret |-> <<updated>>]]
       ELSE /\ invoices' = invoices
            /\ calls' = [calls EXCEPT ![c] =
                    [op |-> "updateInvoice", pc |-> "done", id |-> id, ret |-> <<>>]]
    /\ Begun
    /\ UNCHANGED <<lineItems, invoiceCounter, nextInvoiceId, nextLineItemId,
                   assigned, clientsAndClock>>

\* updateInvoice (storage.ts 177-188)
UpdateInvoice(c, id, invoiceData) ==
    /\ CanBegin
    /\ Free(c)
    /\ id \in KnownInvoiceIds
    /\ IF MapHas(invoices, id)
       THEN LET existing == MapGet(invoices, id)
                updated  == [Merge(existing, invoiceData) EXCEPT !.updatedAt = now]
            IN  /\ invoices' = MapSet(invoices, updated)
                /\ calls' = [calls EXCEPT ![c] =
                        [op |-> "updateInvoice", pc |-> "done", id |-> id,
                         ret |-> <<updated>>]]
       ELSE /\ invoices' = invoices
            /\ calls' = [calls EXCEPT ![c] =
                    [op |-> "updateInvoice", pc |-> "done", id |-> id, ret |-> <<>>]]
    /\ Begun
    /\ UNCHANGED <<lineItems, invoiceCounter, nextInvoiceId, nextLineItemId,
                   assigned, clientsAndClock>>

\* createLineItem (storage.ts 216-227), called directly
CreateLineItem(c, insertLineItem) ==
    /\ CanBegin
    /\ Free(c)
    /\ insertLineItem.invoiceId \in KnownInvoiceIds
    /\ LET lineItem == newLineItem(<<0, nextLineItemId>>, insertLineItem)
       IN  /\ lineItems' = MapSet(lineItems, lineItem)
           /\ calls' = [calls EXCEPT ![c] =
                   [op |-> "createLineItem", pc |-> "done", id |-> lineItem.id,
                    ret |-> lineItem]]
    /\ nextLineItemId' = nextLineItemId + 1
    /\ Begun
    /\ UNCHANGED <<invoices, invoiceCounter, nextInvoiceId, assigned, clientsAndClock>>

\* updateLineItem (storage.ts 229-236)
UpdateLineItem(c, id, lineItemData) ==
    /\ CanBegin
    /\ Free(c)
    /\ id \in KnownLineItemIds
    /\ IF MapHas(lineItems, id)
       THEN LET updated == Merge(MapGet(lineItems, id), lineItemData)
            IN  /\ lineItems' = MapSet(lineItems, updated)
                /\ calls' = [calls EXCEPT ![c] =
                        [op |-> "updateLineItem", pc |-> "done", id |-> id,
                         ret |-> <<updated>>]]
       ELSE /\ lineItems' = lineItems
            /\ calls' = [calls EXCEPT ![c] =
                    [op |-> "updateLineItem", pc |-> "done", id |-> id, ret |-> <<>>]]
    /\ Begun
    /\ UNCHANGED <<invoices, invoiceCounter, nextInvoiceId, nextLineItemId,
                   assigned, clientsAndClock>>

\* deleteLineItem (storage.ts 238-240)
DeleteLineItem(c, id) ==
    /\ CanBegin
    /\ Free(c)
    /\ id \in KnownLineItemIds
    /\ lineItems' = MapDelete(lineItems, id)
    /\ calls' = [calls EXCEPT ![c] =
            [op |-> "deleteLineItem", pc |-> "done", id |-> id,
             ret |-> MapHas(lineItems, id)]]
    /\ Begun
    /\ UNCHANGED <<invoices, invoiceCounter, nextInvoiceId, nextLineItemId,
                   assigned, clientsAndClock>>

(***************************************************************************)
(* The client methods (storage.ts 57-94): none has an await.               *)
(***************************************************************************)
\* InsertClient values of createClient.
ClientInputs ==
    { [name |-> "a", email |-> "a@x", address |-> <<>>],
      [name |-> "b", email |-> "b@x", address |-> <<"street">>] }

\* Partial<InsertClient> values of updateClient.
ClientUpdates == {[name |-> "c"], [email |-> "a@x"]}

\* The ids and the emails a caller names: those in the store, the ids of
\* clients that were in the store, and one of each that never was.
KnownClientIds == Ids(clients) \cup 1..(nextClientId - 1) \cup UnknownIds

KnownEmails == {clients[i].email : i \in 1..Len(clients)} \cup {"z@x"}

\* createClient (storage.ts 65-75)
CreateClient(c, insertClient) ==
    /\ CanBegin
    /\ Free(c)
    /\ LET client == newClient(nextClientId, insertClient)
       IN  /\ clients' = MapSet(clients, client)
           /\ calls' = [calls EXCEPT ![c] =
                   [op |-> "createClient", pc |-> "done", id |-> client.id,
                    ret |-> client]]
    /\ nextClientId' = nextClientId + 1
    /\ Begun
    /\ UNCHANGED <<invoices, lineItems, invoiceCounter, nextInvoiceId,
                   nextLineItemId, now, assigned>>

\* An updateClient that carries the new name and email over to the invoices
\* made out to the client's email.
UpdateClientCascading(c, id, clientData) ==
    /\ CanBegin
    /\ Free(c)
    /\ id \in KnownClientIds
    /\ IF MapHas(clients, id)
       THEN LET existing == MapGet(clients, id)
                updated  == Merge(existing, clientData)
            IN  /\ clients' = MapSet(clients, updated)
                /\ invoices' = MapSeq(invoices,
                        LAMBDA inv : IF inv.clientEmail = existing.email
                                     THEN [inv EXCEPT !.clientName = updated.name,
                                                      !.clientEmail = updated.email]
                                     ELSE inv)
                /\ calls' = [calls EXCEPT ![c] =
                        [op |-> "updateClient", pc |-> "done", id |-> id,
                         ret |-> <<updated>>]]
       ELSE /\ UNCHANGED <<clients, invoices>>
            /\ calls' = [calls EXCEPT ![c] =
                    [op |-> "updateClient", pc |-> "done", id |-> id, ret |-> <<>>]]
    /\ Begun
    /\ UNCHANGED <<lineItems, invoiceCounter, nextInvoiceId, nextLineItemId,
                   nextClientId, now, assigned>>

\* updateClient (storage.ts 83-90)
UpdateClient(c, id, clientData) ==
    /\ CanBegin
    /\ Free(c)
    /\ id \in KnownClientIds
    /\ IF MapHas(clients, id)
       THEN LET updated == Merge(MapGet(clients, id), clientData)
            IN  /\ clients' = MapSet(clients, updated)
                /\ calls' = [calls EXCEPT ![c] =
                        [op |-> "updateClient", pc |-> "done", id |-> id,
                         ret |-> <<updated>>]]
       ELSE /\ clients' = clients
            /\ calls' = [calls EXCEPT ![c] =
                    [op |-> "updateClient", pc |-> "done", id |-> id, ret |-> <<>>]]
    /\ Begun
    /\ UNCHANGED <<invoices, lineItems, invoiceCounter, nextInvoiceId,
                   nextLineItemId, nextClientId, now, assigned>>

\* A deleteClient that reports a deletion whatever it found.
DeleteClientReportingTrue(c, id) ==
    /\ CanBegin
    /\ Free(c)
    /\ id \in KnownClientIds
    /\ clients' = MapDelete(clients, id)
    /\ calls' = [calls EXCEPT ![c] =
            [op |-> "deleteClient", pc |-> "done", id |-> id, ret |-> TRUE]]
    /\ Begun
    /\ UNCHANGED <<invoices, lineItems, invoiceCounter, nextInvoiceId,
                   nextLineItemId, nextClientId, now, assigned>>

\* deleteClient (storage.ts 92-94)
DeleteClient(c, id) ==
    /\ CanBegin
    /\ Free(c)
    /\ id \in KnownClientIds
    /\ clients' = MapDelete(clients, id)
    /\ calls' = [calls EXCEPT ![c] =
            [op |-> "deleteClient", pc |-> "done", id |-> id,
             ret |-> MapHas(clients, id)]]
    /\ Begun
    /\ UNCHANGED <<invoices, lineItems, invoiceCounter, nextInvoiceId,
                   nextLineItemId, nextClientId, now, assigned>>

\* What a method that only reads leaves alone, but for calls, nOps, overlaps.
store == <<clients, invoices, lineItems, invoiceCounter, nextInvoiceId,
           nextLineItemId, nextClientId, now, assigned>>

\* getClient (storage.ts 57-59)
GetClient(c, id) ==
    /\ CanBegin
    /\ Free(c)
    /\ id \in KnownClientIds
    /\ calls' = [calls EXCEPT ![c] =
            [op |-> "getClient", pc |-> "done", id |-> id,
             ret |-> IF MapHas(clients, id) THEN <<MapGet(clients, id)>> ELSE <<>>]]
    /\ Begun
    /\ UNCHANGED store

\* getClientByEmail (storage.ts 61-63)
GetClientByEmail(c, email) ==
    /\ CanBegin
    /\ Free(c)
    /\ email \in KnownEmails
    /\ calls' = [calls EXCEPT ![c] =
            [op |-> "getClientByEmail", pc |-> "done", id |-> email,
             ret |-> Find(clients, LAMBDA client : client.email = email)]]
    /\ Begun
    /\ UNCHANGED store

\* getAllClients (storage.ts 77-81)
GetAllClients(c) ==
    /\ CanBegin
    /\ Free(c)
    /\ calls' = [calls EXCEPT ![c] =
            [op |-> "getAllClients", pc |-> "done",
             ret |-> sortNewestFirst(clients, LAMBDA client : client.createdAt)]]
    /\ Begun
    /\ UNCHANGED store

(***************************************************************************)
(* The methods that read invoices and line items.                          *)
(***************************************************************************)
\* The invoice numbers a caller names: those in the store, and one that is
\* not.
KnownInvoiceNumbers ==
    {invoices[i].invoiceNumber : i \in 1..Len(invoices)} \cup {Prefix}

\* Lines 98-101 or 106-109: the invoice looked up and, when there is one, its
\* line items read from the store; then the await.
LookedUp(c, op, key, found) ==
    calls' = [calls EXCEPT ![c] =
        IF found = <<>>
        THEN [op |-> op, pc |-> "done", id |-> key, ret |-> <<>>]
        ELSE [op |-> op, pc |-> "lines", id |-> key, invoice |-> found[1],
              lineItems |-> getLineItemsByInvoiceId(lineItems, found[1].id)]]

\* getInvoice (storage.ts 97-103), up to its await
GetInvoiceStart(c, id) ==
    /\ CanBegin
    /\ Free(c)
    /\ id \in KnownInvoiceIds
    /\ LookedUp(c, "getInvoice", id,
                IF MapHas(invoices, id) THEN <<MapGet(invoices, id)>> ELSE <<>>)
    /\ Begun
    /\ UNCHANGED store

\* getInvoiceByNumber (storage.ts 105-111), up to its await
GetInvoiceByNumberStart(c, invoiceNumber) ==
    /\ CanBegin
    /\ Free(c)
    /\ invoiceNumber \in KnownInvoiceNumbers
    /\ LookedUp(c, "getInvoiceByNumber", invoiceNumber,
                Find(invoices, LAMBDA inv : inv.invoiceNumber = invoiceNumber))
    /\ Begun
    /\ UNCHANGED store

\* Line 102 or 110: the invoice with the line items read before the await.
GetInvoiceFinish(c) ==
    /\ Settled
    /\ calls[c].pc = "lines"
    /\ calls' = [calls EXCEPT ![c] =
            [op |-> calls[c].op, pc |-> "done", id |-> calls[c].id,
             ret |-> <<withLineItems(calls[c].invoice, calls[c].lineItems)>>]]
    /\ UNCHANGED <<store, nOps, overlaps>>

\* A return of getAllInvoices that does not sort.
unsortedInvoices(invoicesWithLineItems) == invoicesWithLineItems

\* The sort and the return of getAllInvoices (lines 172-174).
sortedInvoices(invoicesWithLineItems) ==
    sortNewestFirst(invoicesWithLineItems, LAMBDA r : r.invoice.createdAt)

\* Lines 165-168: the invoices of the store, and the line items of the first
\* one read from the store; then the await.  Lines 165-174 with no invoice.
GetAllInvoicesStart(c) ==
    /\ CanBegin
    /\ Free(c)
    /\ calls' = [calls EXCEPT ![c] =
            IF invoices = <<>>
            THEN [op |-> "getAllInvoices", pc |-> "done", ret |-> <<>>]
            ELSE [op |-> "getAllInvoices", pc |-> "loop", all |-> invoices,
                  awaited |-> getLineItemsByInvoiceId(lineItems, invoices[1].id),
                  invoicesWithLineItems |-> <<>>]]
    /\ Begun
    /\ UNCHANGED store

\* Lines 169, 167-168 or 172-174: push the invoice with the line items
\* awaited, then read those of the next invoice up to the await, or sort and
\* return after the last one.
GetAllInvoicesNext(c) ==
    /\ Settled
    /\ calls[c].pc = "loop"
    /\ LET call   == calls[c]
           k      == Len(call.invoicesWithLineItems) + 1
           pushed == Append(call.invoicesWithLineItems,
                            withLineItems(call.all[k], call.awaited))
       IN  calls' = [calls EXCEPT ![c] =
               IF k = Len(call.all)
               THEN [op |-> "getAllInvoices", pc |-> "done",
                     ret |-> sortedInvoices(pushed)]
               ELSE [call EXCEPT
                       !.awaited = getLineItemsByInvoiceId(lineItems, call.all[k + 1].id),
                       !.invoicesWithLineItems = pushed]]
    /\ UNCHANGED <<store, nOps, overlaps>>

\* A getNextInvoiceNumber that reserves the number it returns: it takes it
\* from invoiceCounter when the scan is behind it, and moves invoiceCounter on.
GetNextInvoiceNumberReserving(c) ==
    LET scanned == getNextInvoiceNumber(invoices)
        n       == Max({invoiceCounter,
                        DigitsValue(LeadingDigits(replacePrefix(scanned, Prefix)))})
    IN  /\ CanBegin
        /\ Free(c)
        /\ calls' = [calls EXCEPT ![c] =
                [op |-> "getNextInvoiceNumber", pc |-> "done",
                 ret |-> Prefix \o padStart(numberToString(n), 3, "0")]]
        /\ invoiceCounter' = n + 1
        /\ Begun
        /\ UNCHANGED <<clients, invoices, lineItems, nextInvoiceId, nextLineItemId,
                       nextClientId, now, assigned>>

\* getNextInvoiceNumber (storage.ts 200-209), called directly
GetNextInvoiceNumber(c) ==
    /\ CanBegin
    /\ Free(c)
    /\ calls' = [calls EXCEPT ![c] =
            [op |-> "getNextInvoiceNumber", pc |-> "done",
             ret |-> getNextInvoiceNumber(invoices)]]
    /\ Begun
    /\ UNCHANGED store

\* getLineItemsByInvoiceId (storage.ts 212-214), called directly
GetLineItemsByInvoiceId(c, invoiceId) ==
    /\ CanBegin
    /\ Free(c)
    /\ invoiceId \in KnownInvoiceIds
    /\ calls' = [calls EXCEPT ![c] =
            [op |-> "getLineItemsByInvoiceId", pc |-> "done", id |-> invoiceId,
             ret |-> getLineItemsByInvoiceId(lineItems, invoiceId)]]
    /\ Begun
    /\ UNCHANGED store

\* getInvoiceStats (storage.ts 243-266)
GetInvoiceStats(c) ==
    /\ CanBegin
    /\ Free(c)
    /\ calls' = [calls EXCEPT ![c] =
            [op |-> "getInvoiceStats", pc |-> "done",
             ret |-> getInvoiceStats(invoices)]]
    /\ Begun
    /\ UNCHANGED store

(***************************************************************************)
(* Specifications.                                                         *)
(***************************************************************************)
\* storage.ts 46-54: the maps are empty and no call is in flight.
Constructed ==
    /\ clients = <<>>
    /\ invoices = <<>>
    /\ lineItems = <<>>
    /\ invoiceCounter = 1
    /\ calls = [c \in Calls |-> Idle]
    /\ nextInvoiceId = 1
    /\ nextLineItemId = 1
    /\ nextClientId = 1
    /\ now = 0
    /\ assigned = {}
    /\ nOps = 0

\* The store as constructed, with a caller whose calls may overlap.
Init == Constructed /\ overlaps = MaxOverlaps

\* The store as constructed, with a caller that serializes its calls.
SerialInit == Constructed /\ overlaps = 0

\* updateInvoice with an invoice number in its data.
Renumber ==
    \E c \in Calls, id \in KnownInvoiceIds, n \in InvoiceNumbers :
        UpdateInvoice(c, id, [invoiceNumber |-> n])

\* Every other call: a new one starts, or a method without an await runs.
BeginOther ==
    \/ \E c \in Calls, req \in Requests : CreateInvoiceStart(c, req)
    \/ \E c \in Calls, id \in KnownInvoiceIds : DeleteInvoiceStart(c, id)
    \/ \E c \in Calls, id \in KnownInvoiceIds, d \in InvoiceUpdates :
           UpdateInvoice(c, id, d)
    \/ \E c \in Calls, id \in KnownInvoiceIds, d \in LineItemInputs :
           CreateLineItem(c, [invoiceId |-> id, quantity |-> d.quantity,
                              rate |-> d.rate, amount |-> d.amount])
    \/ \E c \in Calls, id \in KnownLineItemIds, d \in LineItemUpdates :
           UpdateLineItem(c, id, d)
    \/ \E c \in Calls, id \in KnownLineItemIds, id2 \in KnownInvoiceIds :
           UpdateLineItem(c, id, [invoiceId |-> id2])
    \/ \E c \in Calls, id \in KnownLineItemIds : DeleteLineItem(c, id)

Begin == Renumber \/ BeginOther

\* A call in flight goes on from its await, or hands over its result.
Continue ==
    \/ \E c \in Calls : CreateInvoiceInsert(c)
    \/ \E c \in Calls : CreateInvoiceNextItem(c)
    \/ \E c \in Calls : DeleteInvoiceFinish(c)
    \/ \E c \in Calls : Return(c)

Next == Begin \/ Continue

\* Calls overlap: any call may start or go on at any await.
Spec == Init /\ [][Next]_vars

\* Calls are serialized: a call starts when the call before it has returned.
SerialSpec == SerialInit /\ [][Next]_vars

\* Serialized calls that leave the numbering to createInvoice: no
\* updateInvoice writes an invoice number.
AssignedNext == BeginOther \/ Continue

AssignedSpec == SerialInit /\ [][AssignedNext]_vars

\* The calculation of createInvoice alone: one call, with any request, of
\* the store as constructed.
CalcNext ==
    \/ /\ nOps = 0
       /\ \E c \in Calls, req \in AllRequests : CreateInvoiceStart(c, req)
    \/ \E c \in Calls : CreateInvoiceInsert(c)
    \/ \E c \in Calls : CreateInvoiceNextItem(c)
    \/ \E c \in Calls : Return(c)

CalcSpec == SerialInit /\ [][CalcNext]_vars

(***************************************************************************)
(* Specifications of the whole store and of its reads.                     *)
(***************************************************************************)
ClientOps ==
    \/ \E c \in Calls, d \in ClientInputs : CreateClient(c, d)
    \/ \E c \in Calls, id \in KnownClientIds, d \in ClientUpdates : UpdateClient(c, id, d)
    \/ \E c \in Calls, id \in KnownClientIds : DeleteClient(c, id)

ClientReads ==
    \/ \E c \in Calls, id \in KnownClientIds : GetClient(c, id)
    \/ \E c \in Calls, email \in KnownEmails : GetClientByEmail(c, email)
    \/ \E c \in Calls : GetAllClients(c)

InvoiceReads ==
    \/ \E c \in Calls, id \in KnownInvoiceIds : GetInvoiceStart(c, id)
    \/ \E c \in Calls, n \in KnownInvoiceNumbers : GetInvoiceByNumberStart(c, n)
    \/ \E c \in Calls : GetAllInvoicesStart(c)
    \/ \E c \in Calls : GetNextInvoiceNumber(c)
    \/ \E c \in Calls, id \in KnownInvoiceIds : GetLineItemsByInvoiceId(c, id)
    \/ \E c \in Calls : GetInvoiceStats(c)

ReadContinue ==
    \/ \E c \in Calls : GetInvoiceFinish(c)
    \/ \E c \in Calls : GetAllInvoicesNext(c)

\* The status values of an updateInvoice: status is a text column
\* (schema.ts 23) and Partial<InsertInvoice> takes any string.
StatusValues == {"overdue", "void"}

\* updateInvoice with a status in its data.
Restatus ==
    \E c \in Calls, id \in KnownInvoiceIds, st \in StatusValues :
        UpdateInvoice(c, id, [status |-> st])

\* Every method of the store, with a caller that serializes its calls.
StoreNext ==
    \/ Begin \/ Restatus
    \/ ClientOps \/ ClientReads \/ InvoiceReads \/ Continue \/ ReadContinue

StoreSpec == SerialInit /\ [][StoreNext]_vars

\* createInvoice calls and reads that overlap them.
ReadNext ==
    \/ \E c \in Calls, req \in Requests : CreateInvoiceStart(c, req)
    \/ InvoiceReads
    \/ \E c \in Calls : CreateInvoiceInsert(c)
    \/ \E c \in Calls : CreateInvoiceNextItem(c)
    \/ \E c \in Calls : Return(c)
    \/ ReadContinue

ReadSpec == Init /\ [][ReadNext]_vars

\* The status and the total, in hundredths, of the invoices the statistics
\* are taken of.

StoredKinds ==
    { <<"paid", 10000>>, <<"paid", 5000>>, <<"sent", 5000>>,
      <<"overdue", 10000>>, <<"draft", 5000>> }

\* The invoice number of the n-th createInvoice of a store, when no invoice
\* was deleted or renumbered.
nthInvoiceNumber(n) == Prefix \o padStart(numberToString(n), 3, "0")

\* The stores of up to MaxStored invoices, each as createInvoice stored it
\* and updateInvoice gave it a status and a total.
StoredInvoices ==
    LET made(i, d) ==
            Merge(newInvoice(i, nthInvoiceNumber(i),
                             [lineItems |-> <<>>, taxRate |-> 0, clientName |-> "a",
                              clientEmail |-> "a@x", clientAddress |-> <<>>]),
                  [status |-> d[1], total |-> d[2]])
    IN  UNION { {[i \in 1..n |-> made(i, f[i])] : f \in [1..n -> StoredKinds]}
                : n \in 0..MaxStored }

\* getInvoiceStats alone, of any of these stores.
StatsInit ==
    /\ now = 0
    /\ invoices \in StoredInvoices
    /\ clients = <<>>
    /\ lineItems = <<>>
    /\ invoiceCounter = 1
    /\ calls = [c \in Calls |-> Idle]
    /\ nextInvoiceId = Len(invoices) + 1
    /\ nextLineItemId = 1
    /\ nextClientId = 1
    /\ assigned = {invoices[i].invoiceNumber : i \in 1..Len(invoices)}
    /\ nOps = 0
    /\ overlaps = 0

StatsNext ==
    \/ /\ nOps = 0
       /\ \E c \in Calls : GetInvoiceStats(c)
    \/ \E c \in Calls : Return(c)

StatsSpec == StatsInit /\ [][StatsNext]_vars

(***************************************************************************)
(* The clock.  new Date() (storage.ts 71, 142, 143, 184) reads `now`; time *)
(* passes between the steps of the calls, in milliseconds that the bound   *)
(* MaxNow counts.                                                          *)
(***************************************************************************)
Tick ==
    /\ Settled
    /\ now < MaxNow
    /\ now' = now + 1
    /\ UNCHANGED <<clients, invoices, lineItems, invoiceCounter, calls,
                   nextInvoiceId, nextLineItemId, nextClientId, assigned, nOps,
                   overlaps>>

\* The methods that read or write a time, called one at a time while time
\* passes.
ClockNext ==
    \/ \E c \in Calls, req \in Requests : CreateInvoiceStart(c, req)
    \/ \E c \in Calls : CreateInvoiceInsert(c)
    \/ \E c \in Calls : CreateInvoiceNextItem(c)
    \/ \E c \in Calls, id \in KnownInvoiceIds, d \in InvoiceUpdates :
           UpdateInvoice(c, id, d)
    \/ \E c \in Calls, d \in ClientInputs : CreateClient(c, d)
    \/ \E c \in Calls : GetAllInvoicesStart(c)
    \/ \E c \in Calls : GetAllInvoicesNext(c)
    \/ \E c \in Calls : GetAllClients(c)
    \/ \E c \in Calls : Return(c)
    \/ Tick

ClockSpec == SerialInit /\ [][ClockNext]_vars

(***************************************************************************)
(* The invoice form (src/unnamed/part_000, InvoiceForm).  A form session   *)
(* takes a slot of `calls` while it is open; its submission becomes the    *)
(* createInvoice call of the session.                                      *)
(***************************************************************************)
\* The response of GET /api/invoices/next-number.  The route is in
\* server/routes.ts, which is not among the sources: it is taken to answer
\* with the result of getNextInvoiceNumber, the operation the specification
\* gives for the next invoice number (spec.md, section 4).
NextNumberResponse == [nextNumber |-> getNextInvoiceNumber(invoices)]

\* Lines 53-56 and 163-173: the form opens, its query fetches the next
\* number, and the disabled input shows it.
FormOpen(c) ==
    /\ CanBegin
    /\ Free(c)
    /\ calls' = [calls EXCEPT ![c] =
            [op |-> "invoiceForm", pc |-> "open",
             nextNumberResponse |-> NextNumberResponse]]
    /\ Begun
    /\ UNCHANGED store

\* Lines 141-144 and 85-88: onSubmit posts { ...data, lineItems } to
\* /api/invoices; no invoice number is among the data
\* (createInvoiceSchema, schema.ts 58-71).  The server handles one request
\* at a time, and createInvoice runs up to its first await (storage.ts
\* 113-115).  `shown` is not sent: it keeps what the form displayed beside
\* the request.
FormSubmit(c, data) ==
    /\ Settled
    /\ calls[c].op = "invoiceForm"
    /\ \A d \in Calls : calls[d].op # "createInvoice"
    /\ calls' = [calls EXCEPT ![c] =
            [op |-> "createInvoice", pc |-> "number", id |-> nextInvoiceId,
             invoiceNumber |-> getNextInvoiceNumber(invoices),
             seen |-> invoices,
             req |-> [lineItems     |-> data.lineItems,
                      taxRate       |-> data.taxRate,
                      clientName    |-> data.clientName,
                      clientEmail   |-> data.clientEmail,
                      clientAddress |-> data.clientAddress,
                      shown         |-> calls[c].nextNumberResponse.nextNumber]]]
    /\ nextInvoiceId' = nextInvoiceId + 1
    /\ UNCHANGED <<invoices, lineItems, invoiceCounter, nextLineItemId, assigned,
                   nOps, overlaps, clientsAndClock>>

\* Line 394: Cancel closes the form.
FormClose(c) ==
    /\ Settled
    /\ calls[c].op = "invoiceForm"
    /\ calls' = [calls EXCEPT ![c] = Idle]
    /\ UNCHANGED <<store, nOps, overlaps>>

\* Form sessions that overlap, served by a store that handles one
\* submission at a time.
FormNext ==
    \/ \E c \in Calls : FormOpen(c)
    \/ \E c \in Calls, data \in Requests : FormSubmit(c, data)
    \/ \E c \in Calls : FormClose(c)
    \/ \E c \in Calls : CreateInvoiceInsert(c)
    \/ \E c \in Calls : CreateInvoiceNextItem(c)
    \/ \E c \in Calls : Return(c)

FormSpec == Init /\ [][FormNext]_vars

(***************************************************************************)
(* Properties.                                                             *)
(***************************************************************************)
InvoiceNumber(a, b, c) == Prefix \o <<a, b, c>>

NumbersInStore == {invoices[i].invoiceNumber : i \in 1..Len(invoices)}

SuffixOf(num) == SubSeq(num, Len(Prefix) + 1, Len(num))

AllDigits(s) == s # <<>> /\ \A i \in 1..Len(s) : IsDigit(s[i])

\* The number is INV- followed by digits only.
Numbered(num) == startsWith(num, Prefix) /\ AllDigits(SuffixOf(num))

\* The number has no numeric part at all: no INV- prefix, or a suffix that
\* does not begin as a number.
NotNumbered(num) ==
    \/ ~startsWith(num, Prefix)
    \/ SuffixOf(num) = <<>>
    \/ ~IsDigit(SuffixOf(num)[1]) /\ SuffixOf(num)[1] \notin {"-", "+"}

\* The largest numeric suffix among the INV- numbers in the store, 0 when
\* there is none.
MaxSuffix ==
    LET vals == {DigitsValue(SuffixOf(num)) :
                    num \in {n \in NumbersInStore : Numbered(n)}}
    IN  IF vals = {} THEN 0 ELSE Max(vals)

\* n / d rounded to the nearest integer, halves upwards (n >= 0, d > 0).
Rounded(n, d) ==
    CHOOSE k \in 0..((n \div d) + 1) : 2 * d * k - d <= 2 * n /\ 2 * n < 2 * d * k + d

\* C1: getNextInvoiceNumber returns INV- followed by max+1, max being the
\* largest numeric suffix of the INV- numbers in the store and 0 when there
\* is none: INV-001 for the empty store, INV-004 for INV-001 and INV-003.
\* Stated for the stores whose numbers are each INV- and digits, or not
\* numeric at all; the result is written with at least three digits.
C1_NextNumber ==
    LET r   == getNextInvoiceNumber(invoices)
        suf == SuffixOf(r)
    IN  /\ invoices = <<>> => r = InvoiceNumber("0", "0", "1")
        /\ NumbersInStore = {InvoiceNumber("0", "0", "1"), InvoiceNumber("0", "0", "3")}
              => r = InvoiceNumber("0", "0", "4")
        /\ (\A num \in NumbersInStore : Numbered(num) \/ NotNumbered(num))
              => /\ startsWith(r, Prefix)
                 /\ AllDigits(suf)
                 /\ DigitsValue(suf) = MaxSuffix + 1
                 /\ Len(suf) >= 3
                 /\ Len(suf) > 3 => suf[1] # "0"

\* C1's case: INV-001 and INV-003 are stored, INV-002 is not, and the next
\* number is INV-004.
C1_Witness ==
    /\ Len(invoices) = 2
    /\ NumbersInStore = {InvoiceNumber("0", "0", "1"), InvoiceNumber("0", "0", "3")}
    /\ getNextInvoiceNumber(invoices) = InvoiceNumber("0", "0", "4")

\* C2: no two invoices in the store have the same invoiceNumber, whatever
\* storage operations ran.
C2_UniqueNumbers ==
    \A i, j \in 1..Len(invoices) :
        i # j => invoices[i].invoiceNumber # invoices[j].invoiceNumber

\* C3: with serialized calls and numbers assigned by createInvoice only, the
\* invoices in the store carry as many numbers as there are invoices.
C3_SerializedUnique == Cardinality(NumbersInStore) = Len(invoices)

\* C3's case: three serialized createInvoice calls have returned and their
\* invoices are in the store.
C3_Witness == NoneInFlight /\ Len(invoices) = 3

\* Both calls have read their number and neither has inserted its invoice.
BothAwaitNumber(p, q) ==
    /\ p # q
    /\ calls[p].pc = "number"
    /\ calls[q].pc = "number"

\* C4: two overlapping createInvoice calls that have both read their number
\* from the same invoices, before either inserted, hold the same number, and
\* each call inserts its invoice under the number it holds.
C4_Race ==
    /\ [](\A p, q \in Calls :
            BothAwaitNumber(p, q) /\ calls[p].seen = calls[q].seen
                => calls[p].invoiceNumber = calls[q].invoiceNumber)
    /\ [][\A c \in Calls :
            CreateInvoiceInsert(c)
                => /\ MapHas(invoices', calls[c].id)
                   /\ MapGet(invoices', calls[c].id).invoiceNumber
                        = calls[c].invoiceNumber]_vars

\* C4's case: two createInvoice calls were made and nothing else, both have
\* returned, and the two invoices in the store carry the same number.
C4_Witness ==
    /\ nOps = 2
    /\ NoneInFlight
    /\ Len(invoices) = 2
    /\ invoices[1].invoiceNumber = invoices[2].invoiceNumber

\* C5: every stored invoice has total = subtotal + taxAmount and
\* taxAmount = subtotal * taxRate / 100 rounded to 2 decimals, on its stored
\* values (hundredths; taxRate in hundredths of a percent).
C5_TotalsInvariant ==
    \A i \in 1..Len(invoices) :
        LET inv == invoices[i]
        IN  /\ inv.total = inv.subtotal + inv.taxAmount
            /\ inv.taxAmount = Rounded(inv.subtotal * inv.taxRate, 10000)

\* The sum of quantity * rate over the stored line items of an invoice, in
\* hundredths.
RECURSIVE StoredSubtotal(_)
StoredSubtotal(items) ==
    IF items = <<>> THEN 0
    ELSE items[1].quantity * items[1].rate + StoredSubtotal(Tail(items))

Within(a, b, eps) == a - b <= eps /\ b - a <= eps

\* C6: when no call is in flight, the subtotal, tax amount and total
\* recomputed from the stored line items of each invoice, with its stored tax
\* rate, are within one cent of the stored ones.
C6_Recompute ==
    NoneInFlight =>
        \A i \in 1..Len(invoices) :
            LET inv == invoices[i]
                sub == StoredSubtotal(getLineItemsByInvoiceId(lineItems, inv.id))
                tax == Rounded(sub * inv.taxRate, 10000)
                tot == Rounded(sub * 10000 + sub * inv.taxRate, 10000)
            IN  /\ Within(sub, inv.subtotal, 1)
                /\ Within(tax, inv.taxAmount, 1)
                /\ Within(tot, inv.total, 1)

\* The sum of quantity * rate over the line items of a request, in
\* thousandths, not rounded.
RequestSum(req) ==
    LET items == req.lineItems
        F[n \in 0..Len(items)] ==
            IF n = 0 THEN 0 ELSE F[n - 1] + items[n].quantity * items[n].rate
    IN  F[Len(items)]

\* The calls of createInvoice that have inserted their invoice.
Inserted == {c \in Calls : calls[c].op = "createInvoice" /\ calls[c].pc \in {"items", "done"}}

C8_Total ==
    \A c \in Inserted :
        LET inv == MapGet(invoices, calls[c].id)
        IN  inv.total = inv.subtotal + Rounded(inv.subtotal * calls[c].req.taxRate, 100)

\* C9: when deleteInvoice(id) returns, no line item with invoiceId = id is in
\* the store.
C9_Cascade ==
    [][\A c \in Calls :
        DeleteInvoiceFinish(c)
            => \A i \in 1..Len(lineItems') : lineItems'[i].invoiceId # calls[c].id]_vars

\* C9's case: deleteInvoice has returned for an invoice that was in the store
\* with two line items, and none of them is left.
C9_Witness ==
    \E c \in Calls :
        /\ calls[c].op = "deleteInvoice" /\ calls[c].pc = "done"
        /\ calls[c].ret
        /\ Len(calls[c].lineItems) = 2
        /\ getLineItemsByInvoiceId(lineItems, calls[c].id) = <<>>

\* C10: the invoiceId of every stored line item is the id of an invoice in
\* the store.
C10_Owned ==
    \A i \in 1..Len(lineItems) : MapHas(invoices, lineItems[i].invoiceId)

\* The calls of op that have returned and whose result is not yet taken.
Returned(op) == {c \in Calls : calls[c].op = op /\ calls[c].pc = "done"}

\* The number of the invoices in the store that have the status.
CountOf(status) == Cardinality({i \in 1..Len(invoices) : invoices[i].status = status})

\* The sum of total over the paid invoices in the store, in hundredths.
PaidTotal ==
    LET F[n \in 0..Len(invoices)] ==
            IF n = 0 THEN 0
            ELSE F[n - 1] + (IF invoices[n].status = "paid" THEN invoices[n].total ELSE 0)
    IN  F[Len(invoices)]

\* The store of the example: paid 100.00, paid 50.00, sent, overdue.
ExampleStore ==
    /\ Len(invoices) = 4
    /\ <<invoices[1].status, invoices[1].total>> = <<"paid", 10000>>
    /\ <<invoices[2].status, invoices[2].total>> = <<"paid", 5000>>
    /\ invoices[3].status = "sent"
    /\ invoices[4].status = "overdue"

\* C11: getInvoiceStats returns the number of all invoices, the sum of total
\* over the paid ones to 2 decimals, the number of sent ones and the number
\* of overdue ones; for [paid 100, paid 50, sent, overdue] it returns 4,
\* 150.00, 1 and 1.
C11_Stats ==
    \A c \in Returned("getInvoiceStats") :
        LET ret == calls[c].ret
        IN  /\ ret.totalInvoices = Len(invoices)
            /\ ret.totalRevenue = PaidTotal
            /\ ret.pendingInvoices = CountOf("sent")
            /\ ret.overdueInvoices = CountOf("overdue")
            /\ ExampleStore =>
                  ret = [totalInvoices |-> 4, totalRevenue |-> 15000,
                         pendingInvoices |-> 1, overdueInvoices |-> 1]

\* C11's case: getInvoiceStats has returned for the store of the example.
C11_Witness ==
    /\ ExampleStore
    /\ \E c \in Returned("getInvoiceStats") : calls[c].ret.totalRevenue = 15000

\* The methods that only read.
ReadOps ==
    { "getInvoiceStats", "getNextInvoiceNumber", "getInvoice", "getInvoiceByNumber",
      "getAllInvoices", "getLineItemsByInvoiceId", "getClient", "getClientByEmail",
      "getAllClients" }

\* A call of a method that only reads takes a step.
ReadStep == \E c \in Calls : calls'[c] # calls[c] /\ calls'[c].op \in ReadOps

\* C12: no step of a read operation changes the clients, the invoices or the
\* line items, and what getNextInvoiceNumber returns is a function of the
\* invoices it leaves in the store, so that a second call with no mutation
\* in between returns the same number.
C12_ReadsFrame ==
    /\ [][ReadStep => UNCHANGED <<clients, invoices, lineItems>>]_vars
    /\ [](\A c \in Returned("getNextInvoiceNumber") :
            calls[c].ret = getNextInvoiceNumber(invoices))

\* C12's case: the third call in a row is a getNextInvoiceNumber on a store
\* that holds a client, and it returns INV-001 again.
C12_Witness ==
    /\ nOps = 3
    /\ Len(clients) = 1
    /\ invoices = <<>>
    /\ \E c \in Returned("getNextInvoiceNumber") :
            calls[c].ret = InvoiceNumber("0", "0", "1")

\* C13: an INV- number whose suffix is not entirely numeric, such as
\* INV-ABC or a suffix that only begins with digits, is left out of the max
\* of getNextInvoiceNumber: the number returned is INV- and the largest
\* entirely numeric suffix plus one.
C13_MalformedIgnored ==
    LET r == getNextInvoiceNumber(invoices)
    IN  /\ startsWith(r, Prefix)
        /\ AllDigits(SuffixOf(r))
        /\ DigitsValue(SuffixOf(r)) = MaxSuffix + 1

\* The methods that look a record up by its id.
LookupOps ==
    { "getClient", "getInvoice", "updateClient", "updateInvoice", "updateLineItem",
      "deleteClient", "deleteInvoice", "deleteLineItem" }

\* The ids of the records of the map that the method looks its id up in.
IdsFor(op) ==
    IF op \in {"getClient", "updateClient", "deleteClient"} THEN Ids(clients)
    ELSE IF op \in {"getInvoice", "updateInvoice", "deleteInvoice"} THEN Ids(invoices)
    ELSE Ids(lineItems)

\* The result that says the record was not found.
NotFound(call) ==
    IF call.op \in {"deleteClient", "deleteInvoice", "deleteLineItem"}
    THEN call.ret = FALSE
    ELSE call.ret = <<>>

\* C14: a lookup-by-id method that returns for an id that is not in its map
\* returns undefined (false for the delete methods) and leaves the clients,
\* the invoices and the line items as they were.
C14_NotFound ==
    [][\A c \in Calls :
        (/\ calls'[c] # calls[c]
         /\ calls'[c].op \in LookupOps
         /\ calls'[c].pc = "done"
         /\ calls'[c].id \notin IdsFor(calls'[c].op))
            => /\ NotFound(calls'[c])
               /\ UNCHANGED <<clients, invoices, lineItems>>]_vars

\* The elements of a sequence.
Range(s) == {s[i] : i \in 1..Len(s)}

\* What the read call in slot c has seen so far: invoices, each with the line
\* items read for it.
Observations(c) ==
    LET call == calls[c]
    IN  IF call.pc = "lines"
        THEN {withLineItems(call.invoice, call.lineItems)}
        ELSE IF call.pc = "loop"
        THEN Range(call.invoicesWithLineItems)
                \cup {withLineItems(call.all[Len(call.invoicesWithLineItems) + 1],
                                    call.awaited)}
        ELSE IF call.pc = "done"
                /\ call.op \in {"getInvoice", "getInvoiceByNumber", "getAllInvoices"}
        THEN Range(call.ret)
        ELSE {}

\* C15: a read that overlaps a createInvoice call sees the new invoice with
\* all the line items of the request, or does not see it.
C15_Atomic ==
    \A c, p \in Calls :
        calls[p].op = "createInvoice" =>
            \A o \in Observations(c) :
                o.invoice.id = calls[p].id
                    => Len(o.lineItems) = Len(calls[p].req.lineItems)

\* C16: the number getNextInvoiceNumber returns is the invoiceNumber of no
\* invoice in the store, after any sequence of storage operations.
C16_Unused ==
    /\ getNextInvoiceNumber(invoices) \notin NumbersInStore
    /\ \A c \in Returned("getNextInvoiceNumber") : calls[c].ret \notin NumbersInStore

\* C16's case: getNextInvoiceNumber has returned INV-004 while INV-003, set
\* by updateInvoice, is in the store.
C16_Witness ==
    /\ InvoiceNumber("0", "0", "3") \in NumbersInStore
    /\ \E c \in Returned("getNextInvoiceNumber") :
            calls[c].ret = InvoiceNumber("0", "0", "4")

\* C17: createInvoice never stores a number that an earlier createInvoice
\* call stored, also when the invoice that had it has been deleted since.
C17_NeverReused ==
    [][\A c \in Calls :
        CreateInvoiceInsert(c) => calls[c].invoiceNumber \notin assigned]_vars

\* C18: getNextInvoiceNumber returns INV- followed by exactly three decimal
\* digits, whatever the store holds.
C18_ThreeDigits ==
    LET r == getNextInvoiceNumber(invoices)
    IN  /\ startsWith(r, Prefix)
        /\ AllDigits(SuffixOf(r))
        /\ Len(SuffixOf(r)) = 3

\* C19: every stored line item has amount = quantity * rate to 2 decimals,
\* on its stored quantity and its stored rate (rate and amount in
\* hundredths, so the product is in hundredths too).
C19_Amount ==
    \A i \in 1..Len(lineItems) :
        lineItems[i].amount = lineItems[i].quantity * lineItems[i].rate

\* C20: every stored line item has a quantity of at least 1 and a rate of at
\* least 0.
C20_Positive ==
    \A i \in 1..Len(lineItems) :
        /\ lineItems[i].quantity \in Nat
        /\ lineItems[i].quantity >= 1
        /\ lineItems[i].rate >= 0

\* C21: the status of every stored invoice is one of draft, sent, paid and
\* overdue.
C21_Status ==
    \A i \in 1..Len(invoices) :
        invoices[i].status \in {"draft", "sent", "paid", "overdue"}

\* A call of createClient, updateClient or deleteClient takes a step.
ClientStep ==
    \E c \in Calls :
        /\ calls'[c] # calls[c]
        /\ calls'[c].op \in {"createClient", "updateClient", "deleteClient"}

\* C22: createClient, updateClient and deleteClient leave every stored
\* invoice, its clientName, clientEmail and clientAddress included, and
\* every stored line item as they were.
C22_ClientFrame == [][ClientStep => UNCHANGED <<invoices, lineItems>>]_vars

\* C22's case: the client with email a@x has been renamed to c, and the
\* invoice made out to a@x still has the client name a.
C22_Witness ==
    /\ \E c \in Returned("updateClient") :
            /\ calls[c].ret # <<>>
            /\ calls[c].ret[1].email = "a@x"
            /\ calls[c].ret[1].name = "c"
    /\ \E i \in 1..Len(invoices) :
            invoices[i].clientEmail = "a@x" /\ invoices[i].clientName = "a"

\* The line items of the invoice of deleteInvoice call c that a createLineItem
\* call stored after c had read the line items of the invoice.
CreatedSinceScan(c) ==
    SelectSeq(getLineItemsByInvoiceId(lineItems, calls[c].id),
              LAMBDA item : item.id \notin Ids(calls[c].lineItems) /\ item.id[1] = 0)

\* C23: when createLineItem for invoice id has run between the scan of
\* deleteInvoice(id) and its deletions, no line item with invoiceId = id is
\* in the store once deleteInvoice has completed.
C23_CascadeInterleaved ==
    [][\A c \in Calls :
        (DeleteInvoiceFinish(c) /\ CreatedSinceScan(c) # <<>>)
            => getLineItemsByInvoiceId(lineItems', calls[c].id) = <<>>]_vars

\* C24: deleteInvoice(id) leaves the store alone until its deletions, which
\* remove the invoice id and the line items whose invoiceId is id and
\* nothing else: the other invoices, the line items of other invoices and
\* the clients stay as they were.
C24_DeleteFrame ==
    [][\A c \in Calls :
        /\ (calls'[c] # calls[c] /\ calls'[c].op = "deleteInvoice"
                /\ calls'[c].pc = "scan") => UNCHANGED store
        /\ DeleteInvoiceFinish(c) =>
              /\ invoices' = SelectSeq(invoices, LAMBDA inv : inv.id # calls[c].id)
              /\ lineItems' = SelectSeq(lineItems,
                                  LAMBDA item : item.invoiceId # calls[c].id)
              /\ clients' = clients]_vars

\* C24's case: deleteInvoice has deleted an invoice and its line items, and
\* another invoice and a line item of it are still in the store.
C24_Witness ==
    \E c \in Returned("deleteInvoice") :
        /\ calls[c].ret
        /\ calls[c].lineItems # <<>>
        /\ \E i \in 1..Len(invoices) :
                getLineItemsByInvoiceId(lineItems, invoices[i].id) # <<>>

\* The records of s are the first records of t, unchanged.
StartsWith(t, s) == Len(s) <= Len(t) /\ SubSeq(t, 1, Len(s)) = s

\* The last n records of s.
Last(s, n) == SubSeq(s, Len(s) - n + 1, Len(s))

\* Call c of createInvoice takes a step.
CreateInvoiceStep(c) == calls'[c] # calls[c] /\ calls'[c].op = "createInvoice"

\* When createInvoice has returned, the store holds the invoices there were
\* and the new one, and its last line items are the n line items of the
\* request, in the order of the request, all of the new invoice; no other
\* line item is of the new invoice.
CreateInvoiceAdded ==
    \A c \in Returned("createInvoice") :
        LET call == calls[c]
            n    == Len(call.req.lineItems)
        IN  /\ invoices = Append(call.seen, call.ret.invoice)
            /\ call.ret.invoice.id = call.id
            /\ call.id \notin Ids(call.seen)
            /\ Len(lineItems) >= n
            /\ getLineItemsByInvoiceId(lineItems, call.id) = Last(lineItems, n)
            /\ \A k \in 1..n :
                    /\ Last(lineItems, n)[k].invoiceId = call.id
                    /\ Last(lineItems, n)[k].quantity = call.req.lineItems[k].quantity

\* C25: with calls that do not overlap, createInvoice adds one invoice and
\* the n line items of the request, in the order of the request and with the
\* id of the new invoice as invoiceId, and its steps leave the invoices and
\* line items there were in their places and the clients unchanged.
C25_CreateFrame ==
    /\ []CreateInvoiceAdded
    /\ [][\A c \in Calls : CreateInvoiceStep(c) =>
            /\ StartsWith(invoices', invoices)
            /\ StartsWith(lineItems', lineItems)
            /\ \A i \in (Len(invoices) + 1)..Len(invoices') :
                    invoices'[i].id = calls'[c].id
            /\ \A i \in (Len(lineItems) + 1)..Len(lineItems') :
                    lineItems'[i].invoiceId = calls'[c].id
            /\ clients' = clients]_vars

\* C25's case: createInvoice has returned for a request with two line items
\* of different quantities, made of a store that held an invoice with a line
\* item.
C25_Witness ==
    \E c \in Returned("createInvoice") :
        /\ Len(calls[c].req.lineItems) = 2
        /\ calls[c].req.lineItems[1].quantity # calls[c].req.lineItems[2].quantity
        /\ calls[c].seen # <<>>
        /\ Len(lineItems) > 2

\* The stored invoice inv with the stored line items of it, in the order of
\* the store.
Stored(inv) ==
    [invoice |-> inv, lineItems |-> getLineItemsByInvoiceId(lineItems, inv.id)]

\* What is stored under the id, and under the invoice number: the first
\* invoice of the store with that number.
StoredById(id) ==
    IF MapHas(invoices, id) THEN <<Stored(MapGet(invoices, id))>> ELSE <<>>

StoredByNumber(invoiceNumber) ==
    IF \E i \in 1..Len(invoices) : invoices[i].invoiceNumber = invoiceNumber
    THEN <<Stored(invoices[CHOOSE i \in 1..Len(invoices) :
                /\ invoices[i].invoiceNumber = invoiceNumber
                /\ \A j \in 1..(i - 1) : invoices[j].invoiceNumber # invoiceNumber])>>
    ELSE <<>>

KeptFields(inv, invoiceData) == (DOMAIN inv \ DOMAIN invoiceData) \ {"updatedAt"}

\* C27: updateInvoice(id, data) on a stored invoice sets the fields of data
\* and updatedAt and keeps every other field, id, createdAt and the monetary
\* fields included; the other invoices stay in their places unchanged, and
\* so do the line items and the clients.
C27_UpdateFrame ==
    [][\A c \in Calls, id \in KnownInvoiceIds, d \in InvoiceUpdates :
        (UpdateInvoice(c, id, d) /\ MapHas(invoices, id)) =>
            /\ Ids(invoices') = Ids(invoices)
            /\ Len(invoices') = Len(invoices)
            /\ \A i \in 1..Len(invoices) :
                   IF invoices[i].id = id
                   THEN /\ DOMAIN invoices'[i] = DOMAIN invoices[i]
                        /\ \A f \in DOMAIN d : invoices'[i][f] = d[f]
                        /\ invoices'[i].updatedAt = now
                        /\ \A f \in KeptFields(invoices[i], d) :
                               invoices'[i][f] = invoices[i][f]
                   ELSE invoices'[i] = invoices[i]
            /\ lineItems' = lineItems
            /\ clients' = clients]_vars

\* C27's case: an invoice with line items, created at time 0, has been marked
\* paid at a later time; its total is the one createInvoice computed.
C27_Witness ==
    \E c \in Returned("updateInvoice") :
        /\ calls[c].ret # <<>>
        /\ calls[c].ret[1].status = "paid"
        /\ calls[c].ret[1].createdAt = 0
        /\ calls[c].ret[1].updatedAt > 0
        /\ calls[c].ret[1].total > 0
        /\ getLineItemsByInvoiceId(lineItems, calls[c].id) # <<>>

\* The sequence ret holds every record of the map m exactly once, rec(r)
\* being the stored record that the element r of ret carries.
EachOnce(ret, m, rec(_)) ==
    /\ Len(ret) = Len(m)
    /\ \A i \in 1..Len(m) :
           Cardinality({k \in 1..Len(ret) : rec(ret[k]) = m[i]}) = 1

\* The records of ret are in the order of their creation times, the latest
\* first.
NewestFirst(ret, time(_)) ==
    \A k \in 1..(Len(ret) - 1) : time(ret[k]) >= time(ret[k + 1])

\* C28: with calls that do not overlap, getAllInvoices returns every stored
\* invoice exactly once, later creation times first, each with exactly the
\* stored line items whose invoiceId is its id; getAllClients returns every
\* stored client exactly once, later creation times first.
C28_Listings ==
    /\ \A c \in Returned("getAllInvoices") :
           /\ EachOnce(calls[c].ret, invoices, LAMBDA r : r.invoice)
           /\ NewestFirst(calls[c].ret, LAMBDA r : r.invoice.createdAt)
           /\ \A k \in 1..Len(calls[c].ret) :
                  calls[c].ret[k].lineItems =
                      getLineItemsByInvoiceId(lineItems, calls[c].ret[k].invoice.id)
    /\ \A c \in Returned("getAllClients") :
           /\ EachOnce(calls[c].ret, clients, LAMBDA r : r)
           /\ NewestFirst(calls[c].ret, LAMBDA r : r.createdAt)

\* C28's case: getAllInvoices has returned two invoices created at different
\* times, the later one, stored second, first, and both with line items.
C28_Witness ==
    \E c \in Returned("getAllInvoices") :
        /\ Len(calls[c].ret) = 2
        /\ calls[c].ret[1].invoice.createdAt > calls[c].ret[2].invoice.createdAt
        /\ calls[c].ret[1].invoice = invoices[2]
        /\ calls[c].ret[1].lineItems # <<>>
        /\ calls[c].ret[2].lineItems # <<>>

\* Call c of deleteClient, deleteInvoice or deleteLineItem returns.
DeleteReturns(c) ==
    /\ calls'[c] # calls[c]
    /\ calls'[c].pc = "done"
    /\ calls'[c].op \in {"deleteClient", "deleteInvoice", "deleteLineItem"}

\* The map a delete method deletes from, of the maps cs, is and ls of
\* clients, invoices and line items.
MapOf(op, cs, is, ls) ==
    IF op = "deleteClient" THEN cs ELSE IF op = "deleteInvoice" THEN is ELSE ls

\* Nothing is in the maps for a delete method to remove under the id.
NothingToDelete(op, id, cs, is, ls) ==
    /\ ~MapHas(MapOf(op, cs, is, ls), id)
    /\ op = "deleteInvoice" => getLineItemsByInvoiceId(ls, id) = <<>>

\* C29: with calls that do not overlap, deleteClient, deleteInvoice and
\* deleteLineItem return true exactly when the record with the id was in the
\* store, and leave nothing in the store under the id; called when nothing is
\* under the id, as a second call with the same id is, they return false and
\* leave the store as it was.
C29_Deletes ==
    [][\A c \in Calls : DeleteReturns(c) =>
        LET op == calls'[c].op
            id == calls'[c].id
        IN  /\ calls'[c].ret = MapHas(MapOf(op, clients, invoices, lineItems), id)
            /\ NothingToDelete(op, id, clients', invoices', lineItems')
            /\ NothingToDelete(op, id, clients, invoices, lineItems) =>
                   /\ calls'[c].ret = FALSE
                   /\ UNCHANGED <<clients, invoices, lineItems>>]_vars

\* C29's case: deleteInvoice has returned false for the id of an invoice
\* that createInvoice stored and an earlier deleteInvoice removed.
C29_Witness ==
    \E c \in Returned("deleteInvoice") :
        /\ calls[c].ret = FALSE
        /\ calls[c].id \in 1..(nextInvoiceId - 1)
        /\ calls[c].id \notin Ids(invoices)
        /\ getLineItemsByInvoiceId(lineItems, calls[c].id) = <<>>

\* C30: the invoice a form session creates has the number the form showed:
\* the number its next-number query fetched when it opened.
C30_ShownNumber ==
    \A c \in Returned("createInvoice") :
        "shown" \in DOMAIN calls[c].req
            => calls[c].ret.invoice.invoiceNumber = calls[c].req.shown

====
